---- MODULE Spec2Model ----
(***************************************************************************)
(* Model of the Swift toolchain installer for Windows                     *)
(* (src/src/windows-install.ts, the module that starts at line 108) and   *)
(* of the action's entry point run() (src/unnamed/part_000).              *)
(*                                                                         *)
(* A string is a sequence of symbols; a path is the sequence of its       *)
(* segments, so path.join is concatenation.  Every await of the code is a *)
(* position of pc; the action that leaves a position models the settling  *)
(* of the awaited promise and the synchronous code that follows it up to  *)
(* the next await.  A rejected promise that nothing catches ends the call *)
(* at pc = "thrown".                                                       *)
(***************************************************************************)
EXTENDS Integers, Sequences, FiniteSets, TLC

\* ------------------------------------------------------------- bounds

\* Number of invocations (runs on the same machine) that are explored.
MaxRuns == 3

\* Number of chunks a running installer writes that are explored.
MaxChunks == 1

\* ------------------------------------------------------------- values

\* The null reference; distinct from every string.
NULL == <<"<null>">>

\* The value of a variable that holds a record, before it is assigned.
Unset == [unset |-> TRUE]

\* Whitespace symbols removed by String.prototype.trim.
WhiteSpace == {" ", "\t"}

\* Requested toolchain versions.
Versions == {"5.4.1", "5.4.2", "5.5.0"}

\* Values of os.platform().
Platforms == {"win32", "linux", "darwin"}

\* Values of System.name.
SystemNames == {"windows"}

\* Exit codes a child process may report.
ExitCodes == {0, 1}

\* Values of process.env.SystemDrive (NULL: the variable is not set).
SystemDrives == {NULL, <<"D:">>}

\* Values of PATH at the start of a job.
InitialPaths == {<<>>, <<"sys">>}

\* What toolCache.find returns when nothing is cached.
BlankResults == {NULL, <<>>, <<" ">>, <<" ", "\t">>}

\* Local temporary files produced by the two transfers.
exeTmp == <<"tmp", "exe">>
signatureTmp == <<"tmp", "sig">>

\* ------------------------------------------------------------ helpers

RECURSIVE TrimStart(_)
TrimStart(s) ==
  IF s # <<>> /\ Head(s) \in WhiteSpace THEN TrimStart(Tail(s)) ELSE s

RECURSIVE TrimEnd(_)
TrimEnd(s) ==
  IF s # <<>> /\ s[Len(s)] \in WhiteSpace
    THEN TrimEnd(SubSeq(s, 1, Len(s) - 1))
    ELSE s

\* String.prototype.trim
Trim(s) == TrimEnd(TrimStart(s))

IsBlankNoTrim(swiftPath) == swiftPath = NULL \/ Len(swiftPath) = 0

\* swiftPath === null || swiftPath.trim().length == 0
IsBlank(swiftPath) == swiftPath = NULL \/ Len(Trim(swiftPath)) = 0

\* path.join
Join(a, b) == a \o b

\* `swift-${system.name}`
CacheKey(system) == <<"swift-", system>>

\* The descriptor swiftPackage(version, system) resolves to.
SwiftPackage(v, system) ==
  [version |-> v,
   url     |-> <<"https://swift.org/", system, v, "installer.exe">>,
   name    |-> <<"installer.exe">>]

\* `${url}.sig`
SigUrl(url) == url \o <<".sig">>

\* The directory the tool cache keeps an artifact in.
CacheDir(key, v) == <<"toolcache">> \o key \o <<v>>

\* A call of an external operation: its name and its arguments.
Call(op, args) == [op |-> op, args |-> args, listeners |-> FALSE]

\* `"${swiftPath}" -q`
InstallerCmd(swiftPath) == <<"\"">> \o swiftPath \o <<"\"", " -q">>

\* process.env.SystemDrive ?? "C:"
SystemDriveOr(env) == IF env = NULL THEN <<"C:">> ELSE env

\* path.join(systemDrive, "Library")
SwiftLibPath(systemDrive) == Join(systemDrive, <<"Library">>)

SwiftInstallPath(systemDrive) ==
  Join(SwiftLibPath(systemDrive),
       <<"Developer", "Toolchains",
         "unknown-Asserts-development.xctoolchain", "usr\\bin">>)

AdditionalPaths(systemDrive) ==
  << Join(SwiftLibPath(systemDrive), <<"Swift-development\\bin">>),
     Join(SwiftLibPath(systemDrive), <<"icu-67\\usr\\bin">>) >>

\* core.addPath: the directory is put in front of PATH, nothing is removed.
AddPath(p, dir) == <<dir>> \o p

\* code != 0 || !fs.existsSync(swiftInstallPath)
InstallerFailed(code, exists) == code # 0 \/ ~exists

\* `Swift installer failed with exit code: ${code}`
InstallerFailedMsg(code) ==
  <<"Swift installer failed with exit code: ", ToString(code)>>

\* `${platform} is not supported`
UnsupportedMsg(p) == <<p, " is not supported">>

\* -------------------------------------------------------------- state

VARIABLES
  runs,       \* number of invocations started so far
  entry,      \* the function the invocation entered: "run" or "install"
  pc,         \* position of the invocation
  platform,   \* os.platform()
  version,    \* the requested version
  system,     \* System.name
  cache,      \* the tool cache: the artifacts inserted so far
  fs,         \* directories and files that exist on the machine
  swiftPath,  \* install's local swiftPath
  hit,        \* outcome of the cache test of install: "none", "hit", "miss"
  keys,       \* setupKeys(): "none", "pending", "ok", "failed"
  dlExe,      \* downloadTool(url): "none", "pending", "ok", "failed"
  dlSig,      \* downloadTool(`${url}.sig`): likewise
  verified,   \* verify(signature, exe): "none", "pending", "ok", "failed"
  code,       \* install's code: the installer's exit code; -1 before
  drive,      \* install's systemDrive; NULL before it is read
  path,       \* PATH of the job
  path0,      \* PATH at the start of the job
  failed,     \* core.setFailed was called
  failedMsg,  \* its message
  errors,     \* messages given to core.error
  infos,      \* messages given to core.info
  vsenv,      \* what getVsToolsPath read from the environment; Unset before
  payload,    \* what the build-tools query wrote to standard output
  vsCode,     \* setupRequiredTools' code: the modify engine's; -1 before
  supportCode,\* setupSupportFiles' code: the copy command's; -1 before
  written,    \* the chunks the running installer has written so far
  probes,     \* the file-system lookups (io.which, fs.existsSync), in order
  calls       \* the external operations invoked, in order

vars == <<runs, entry, pc, platform, version, system, cache, fs, swiftPath,
          hit, keys, dlExe, dlSig, verified, code, drive, path, path0,
          failed, failedMsg, errors, infos, vsenv, payload, vsCode,
          supportCode, written, probes, calls>>

machine == <<cache, fs>>
inputs == <<runs, entry, platform, version, system, path0>>
fetch == <<keys, dlExe, dlSig, verified>>
outcome == <<failed, failedMsg, errors, infos>>
tools == <<vsenv, payload, vsCode, supportCode>>
child == <<written, probes>>

Init ==
  /\ runs = 0
  /\ entry = "none"
  /\ pc = "idle"
  /\ platform = "win32"
  /\ version = "5.4.1"
  /\ system = "windows"
  /\ cache = {}
  /\ fs = {}
  /\ swiftPath = NULL
  /\ hit = "none"
  /\ keys = "none"
  /\ dlExe = "none"
  /\ dlSig = "none"
  /\ verified = "none"
  /\ code = -1
  /\ drive = NULL
  /\ path = <<>>
  /\ path0 = <<>>
  /\ failed = FALSE
  /\ failedMsg = <<>>
  /\ errors = <<>>
  /\ infos = <<>>
  /\ vsenv = Unset
  /\ payload = Unset
  /\ vsCode = -1
  /\ supportCode = -1
  /\ written = <<>>
  /\ probes = <<>>
  /\ calls = <<>>

\* The invocation has ended: its promise is resolved or rejected.
\* "thrown": an awaited operation rejected; "TypeError", "SyntaxError": the
\* code itself raised that error.
Rejected == {"thrown", "TypeError", "SyntaxError"}

Ended == pc \in {"idle", "done"} \cup Rejected

\* A fresh process: the per-invocation state is reset, the machine is kept.
Fresh(e, p, v, sys, p0) ==
  /\ Ended
  /\ runs < MaxRuns
  /\ runs' = runs + 1
  /\ entry' = e
  /\ platform' = p
  /\ version' = v
  /\ system' = sys
  /\ path' = p0
  /\ path0' = p0
  /\ swiftPath' = NULL
  /\ hit' = "none"
  /\ keys' = "none"
  /\ dlExe' = "none"
  /\ dlSig' = "none"
  /\ verified' = "none"
  /\ code' = -1
  /\ drive' = NULL
  /\ infos' = <<>>
  /\ vsenv' = Unset
  /\ payload' = Unset
  /\ vsCode' = -1
  /\ supportCode' = -1
  /\ written' = <<>>
  /\ probes' = <<>>
  /\ UNCHANGED machine

\* ------------------------------------------------------- transport

\* One of the two transfers of download() settles.  A transfer goes on after
\* Promise.all has rejected because of the other one.
ExeTransferSettle ==
  /\ dlExe = "pending"
  /\ \E r \in {"ok", "failed"} : dlExe' = r
  /\ UNCHANGED <<inputs, child, machine, pc, swiftPath, hit, keys, dlSig, verified,
                 code, drive, path, outcome, tools, calls>>

SigTransferSettle ==
  /\ dlSig = "pending"
  /\ \E r \in {"ok", "failed"} : dlSig' = r
  /\ UNCHANGED <<inputs, child, machine, pc, swiftPath, hit, keys, dlExe, verified,
                 code, drive, path, outcome, tools, calls>>

\* ---------------------------------------------------------- install

\* install(version, system), up to the platform guard.
InstallBegin ==
  \E p \in Platforms, v \in Versions, sys \in SystemNames,
     p0 \in InitialPaths :
    /\ Fresh("install", p, v, sys, p0)
    /\ failed' = FALSE
    /\ failedMsg' = <<>>
    /\ calls' = <<>>
    /\ IF p # "win32"
         THEN /\ errors' =
                   <<"Trying to run windows installer on non-windows os">>
              /\ pc' = "done"
         ELSE /\ errors' = <<>>
              /\ pc' = "find"

\* The entry the tool cache holds for (key, version), as a set.
Cached(key, v) == {e \in cache : e.key = key /\ e.version = v}

\* toolCache.find(`swift-${system.name}`, version), the cache test, and the
\* call that follows it: setupKeys() on a miss, the installer on a hit.
CacheLookupFetchesOnHit ==
  /\ pc = "find"
  /\ \E found \in IF Cached(CacheKey(system), version) = {}
                    THEN BlankResults
                    ELSE {CacheDir(CacheKey(system), version)} :
       /\ hit' = IF IsBlank(found) THEN "miss" ELSE "hit"
       /\ swiftPath' = found
  /\ keys' = "pending"
  /\ pc' = "setupKeys"
  /\ calls' = calls \o <<Call("find", <<CacheKey(system), <<version>>>>),
                         Call("setupKeys", <<>>)>>
  /\ UNCHANGED <<inputs, child, machine, dlExe, dlSig, verified, code, drive, path,
                 outcome, tools>>

CacheLookup ==
  /\ pc = "find"
  /\ \E found \in IF Cached(CacheKey(system), version) = {}
                    THEN BlankResults
                    ELSE {CacheDir(CacheKey(system), version)} :
       IF IsBlank(found)
         THEN /\ hit' = "miss"
              /\ keys' = "pending"
              /\ pc' = "setupKeys"
              /\ swiftPath' = found
              /\ calls' = calls \o
                   <<Call("find", <<CacheKey(system), <<version>>>>),
                     Call("setupKeys", <<>>)>>
         ELSE /\ hit' = "hit"
              /\ keys' = keys
              /\ pc' = "installer"
              /\ swiftPath' = found
              /\ calls' = calls \o
                   <<Call("find", <<CacheKey(system), <<version>>>>),
                     Call("exec", <<InstallerCmd(found)>>)>>
  /\ UNCHANGED <<inputs, child, machine, dlExe, dlSig, verified, code, drive, path,
                 outcome, tools>>

\* await setupKeys(); then download() starts both transfers.
SetupKeysSettleIgnoringFailure ==
  /\ pc = "setupKeys"
  /\ \E ok \in BOOLEAN : keys' = IF ok THEN "ok" ELSE "failed"
  /\ dlExe' = "pending"
  /\ dlSig' = "pending"
  /\ pc' = "download"
  /\ calls' = calls \o
       <<Call("downloadTool", <<SwiftPackage(version, system).url>>),
         Call("downloadTool", <<SigUrl(SwiftPackage(version, system).url)>>)>>
  /\ UNCHANGED <<inputs, child, machine, swiftPath, hit, verified, code,
                 drive, path, outcome, tools>>

SetupKeysSettle ==
  /\ pc = "setupKeys"
  /\ \E ok \in BOOLEAN :
       IF ok
         THEN /\ keys' = "ok"
              /\ dlExe' = "pending"
              /\ dlSig' = "pending"
              /\ pc' = "download"
              /\ calls' = calls \o
                   <<Call("downloadTool",
                          <<SwiftPackage(version, system).url>>),
                     Call("downloadTool",
                          <<SigUrl(SwiftPackage(version, system).url)>>)>>
         ELSE /\ keys' = "failed"
              /\ pc' = "thrown"
              /\ UNCHANGED <<dlExe, dlSig, calls>>
  /\ UNCHANGED <<inputs, child, machine, swiftPath, hit, verified, code, drive, path,
                 outcome, tools>>

\* await Promise.all([...]) in download(): fulfilled when both transfers are,
\* rejected as soon as one is; on fulfilment verify(signature, exe) is called.
AwaitDownloadsAllSettled ==
  /\ pc = "download"
  /\ dlExe # "pending" /\ dlSig # "pending"
  /\ verified' = "pending"
  /\ pc' = "verify"
  /\ calls' = calls \o <<Call("verify", <<signatureTmp, exeTmp>>)>>
  /\ UNCHANGED <<inputs, child, machine, swiftPath, hit, keys, dlExe, dlSig, code,
                 drive, path, outcome, tools>>

AwaitDownloadsNoVerify ==
  /\ pc = "download"
  /\ \/ /\ dlExe = "ok" /\ dlSig = "ok"
        /\ pc' = "cacheFile"
        /\ calls' = calls \o
             <<Call("cacheFile",
                    <<exeTmp, SwiftPackage(version, system).name,
                      CacheKey(system), <<version>>>>)>>
     \/ /\ "failed" \in {dlExe, dlSig}
        /\ pc' = "thrown"
        /\ UNCHANGED calls
  /\ UNCHANGED <<inputs, child, machine, swiftPath, hit, keys, dlExe, dlSig,
                 verified, code, drive, path, outcome, tools>>

AwaitDownloads ==
  /\ pc = "download"
  /\ \/ /\ dlExe = "ok" /\ dlSig = "ok"
        /\ verified' = "pending"
        /\ pc' = "verify"
        /\ calls' = calls \o <<Call("verify", <<signatureTmp, exeTmp>>)>>
     \/ /\ "failed" \in {dlExe, dlSig}
        /\ pc' = "thrown"
        /\ UNCHANGED <<verified, calls>>
  /\ UNCHANGED <<inputs, child, machine, swiftPath, hit, keys, dlExe, dlSig, code,
                 drive, path, outcome, tools>>

\* await verify(signature, exe); then toolCache.cacheFile(...) is called.
VerifySettleIgnoringFailure ==
  /\ pc = "verify"
  /\ \E ok \in BOOLEAN : verified' = IF ok THEN "ok" ELSE "failed"
  /\ pc' = "cacheFile"
  /\ calls' = calls \o
       <<Call("cacheFile",
              <<exeTmp, SwiftPackage(version, system).name,
                CacheKey(system), <<version>>>>)>>
  /\ UNCHANGED <<inputs, child, machine, swiftPath, hit, keys, dlExe, dlSig, code,
                 drive, path, outcome, tools>>

VerifySettleRetrying ==
  /\ pc = "verify"
  /\ \E ok \in BOOLEAN :
       IF ok
         THEN /\ verified' = "ok"
              /\ pc' = "cacheFile"
              /\ calls' = calls \o
                   <<Call("cacheFile",
                          <<exeTmp, SwiftPackage(version, system).name,
                            CacheKey(system), <<version>>>>)>>
         ELSE IF verified = "pending"
           THEN /\ verified' = "failed"
                /\ pc' = "verify"
                /\ calls' = calls \o <<Call("verify", <<signatureTmp, exeTmp>>)>>
         ELSE /\ verified' = "failed"
              /\ pc' = "thrown"
              /\ UNCHANGED calls
  /\ UNCHANGED <<inputs, child, machine, swiftPath, hit, keys, dlExe, dlSig, code,
                 drive, path, outcome, tools>>

VerifySettle ==
  /\ pc = "verify"
  /\ \E ok \in BOOLEAN :
       IF ok
         THEN /\ verified' = "ok"
              /\ pc' = "cacheFile"
              /\ calls' = calls \o
                   <<Call("cacheFile",
                          <<exeTmp, SwiftPackage(version, system).name,
                            CacheKey(system), <<version>>>>)>>
         ELSE /\ verified' = "failed"
              /\ pc' = "thrown"
              /\ UNCHANGED calls
  /\ UNCHANGED <<inputs, child, machine, swiftPath, hit, keys, dlExe, dlSig, code,
                 drive, path, outcome, tools>>

\* await toolCache.cacheFile(exe, swiftPkg.name, key, version); then
\* swiftPath = path.join(exePath, swiftPkg.name) and the installer is started.
CacheFileSettle ==
  /\ pc = "cacheFile"
  /\ \E ok \in BOOLEAN :
       IF ok
         THEN /\ cache' = cache \cup
                   {[key      |-> CacheKey(system),
                     version  |-> version,
                     name     |-> SwiftPackage(version, system).name,
                     source   |-> exeTmp,
                     verified |-> verified = "ok"]}
              /\ swiftPath' = Join(CacheDir(CacheKey(system), version),
                                   SwiftPackage(version, system).name)
              /\ pc' = "installer"
              /\ calls' = calls \o
                   <<Call("exec",
                          <<InstallerCmd(
                              Join(CacheDir(CacheKey(system), version),
                                   SwiftPackage(version, system).name))>>)>>
         ELSE /\ pc' = "thrown"
              /\ UNCHANGED <<cache, swiftPath, calls>>
  /\ UNCHANGED <<inputs, child, fs, hit, fetch, code, drive, path, outcome, tools>>

\* A file-system lookup: io.which(tool) or fs.existsSync(file).
Probe(op, file) == [op |-> op, file |-> file]

\* The streams a child process writes to.
Streams == {"stdout", "stderr"}

\* The installer writes a chunk to one of its streams while install awaits
\* it.  A listener of the options given to exec forwards the chunk: stdout to
\* core.info, stderr to core.error; a stream without listener is not
\* forwarded.
InstallerOutput ==
  /\ pc = "installer"
  /\ Len(written) < MaxChunks
  /\ \E stream \in Streams :
       /\ written' = Append(written, stream)
       /\ IF calls[Len(calls)].listeners
            THEN /\ infos' = IF stream = "stdout"
                               THEN Append(infos, <<"chunk">>) ELSE infos
                 /\ errors' = IF stream = "stderr"
                                THEN Append(errors, "chunk") ELSE errors
            ELSE UNCHANGED <<infos, errors>>
  /\ UNCHANGED <<inputs, machine, pc, swiftPath, hit, fetch, code, drive,
                 path, failed, failedMsg, tools, probes, calls>>

\* The directories install registers, in the order of its addPath calls:
\* core.addPath(swiftInstallPath); additionalPaths.forEach(core.addPath)
RegisteredDirsAuxFirst(systemDrive) ==
  AdditionalPaths(systemDrive) \o <<SwiftInstallPath(systemDrive)>>

RegisteredDirs(systemDrive) ==
  <<SwiftInstallPath(systemDrive)>> \o AdditionalPaths(systemDrive)

RECURSIVE AddPaths(_, _)
AddPaths(p, dirs) ==
  IF dirs = <<>> THEN p ELSE AddPaths(AddPath(p, Head(dirs)), Tail(dirs))

RegisterPaths(p, systemDrive) == AddPaths(p, RegisteredDirs(systemDrive))

RegisterCalls(systemDrive) ==
  [i \in 1..Len(RegisteredDirs(systemDrive)) |->
     Call("addPath", <<RegisteredDirs(systemDrive)[i]>>)]

InstallerSettleNoReturn ==
  /\ pc = "installer"
  /\ \/ /\ pc' = "thrown"
        /\ UNCHANGED <<fs, code, drive, path, failed, failedMsg, probes>>
     \/ \E c \in ExitCodes, created \in BOOLEAN, env \in SystemDrives :
          LET systemDrive == SystemDriveOr(env)
              swiftInstallPath == SwiftInstallPath(systemDrive)
              fs1 == IF created THEN fs \cup {swiftInstallPath} ELSE fs
          IN /\ code' = c
             /\ probes' = Append(probes, Probe("existsSync", swiftInstallPath))
             /\ drive' = systemDrive
             /\ fs' = fs1
             /\ IF InstallerFailed(c, swiftInstallPath \in fs1)
                  THEN /\ failed' = TRUE
                       /\ failedMsg' = InstallerFailedMsg(c)
                  ELSE UNCHANGED <<failed, failedMsg>>
             /\ path' = RegisterPaths(path, systemDrive)
             /\ pc' = "tools"
  /\ calls' = IF pc' = "tools"
                THEN calls \o RegisterCalls(drive')
                ELSE calls
  /\ written' = <<>>
  /\ UNCHANGED <<inputs, cache, swiftPath, hit, fetch, errors, infos, tools>>

\* await exec(`"${swiftPath}" -q`, []): the installer ends with an exit code
\* (it may or may not have created the toolchain directory) or cannot be
\* started; then the locate step, the PATH registration and the call of
\* setupRequiredTools.
InstallerSettle ==
  /\ pc = "installer"
  /\ \/ /\ pc' = "thrown"
        /\ UNCHANGED <<fs, code, drive, path, failed, failedMsg, probes>>
     \/ \E c \in ExitCodes, created \in BOOLEAN, env \in SystemDrives :
          LET systemDrive == SystemDriveOr(env)
              swiftInstallPath == SwiftInstallPath(systemDrive)
              fs1 == IF created THEN fs \cup {swiftInstallPath} ELSE fs
          IN /\ code' = c
             /\ probes' = Append(probes, Probe("existsSync", swiftInstallPath))
             /\ drive' = systemDrive
             /\ fs' = fs1
             /\ IF InstallerFailed(c, swiftInstallPath \in fs1)
                  THEN /\ failed' = TRUE
                       /\ failedMsg' = InstallerFailedMsg(c)
                       /\ pc' = "done"
                       /\ path' = path
                  ELSE /\ path' = RegisterPaths(path, systemDrive)
                       /\ pc' = "tools"
                       /\ UNCHANGED <<failed, failedMsg>>
  /\ calls' = IF pc' = "tools"
                THEN calls \o RegisterCalls(drive')
                ELSE calls
  /\ written' = <<>>
  /\ UNCHANGED <<inputs, cache, swiftPath, hit, fetch, errors, infos, tools>>

\* ------------------------------------------------ setupRequiredTools

\* Values of process.env.VSWHERE_PATH (NULL: the variable is not set).
VsWherePaths == {NULL, <<"V:\\tools">>}

\* Where io.which finds vswhere when it is on the search path.
vsWhereInPath == <<"P:\\bin", "vswhere.exe">>

\* process.env["ProgramFiles(x86)"]
programFilesX86 == <<"C:\\Program Files (x86)">>

GivenVsWhere(dir) == Join(dir, <<"vswhere.exe">>)

FixedVsWhere ==
  Join(programFilesX86, <<"Microsoft Visual Studio\\Installer\\vswhere.exe">>)

\* The environments getVsToolsPath may run in: VSWHERE_PATH, whether io.which
\* finds the tool, which files exist, and whether the modify engine
\* (vs_installer.exe) exists beside the resolved vswhere.exe.  What io.which
\* finds exists.
VsEnvs ==
  {e \in [given   : VsWherePaths,
          inPath  : BOOLEAN,
          engine  : BOOLEAN,
          present : SUBSET ({GivenVsWhere(d) : d \in VsWherePaths \ {NULL}}
                            \cup {vsWhereInPath, FixedVsWhere})] :
     e.inPath <=> vsWhereInPath \in e.present}

\* The path getVsToolsPath resolves vswhere.exe to.
VswhereToolExeFallingBack(e) ==
  IF e.given # NULL /\ GivenVsWhere(e.given) \in e.present
    THEN GivenVsWhere(e.given)
  ELSE IF e.inPath THEN vsWhereInPath
  ELSE FixedVsWhere

VswhereToolExe(e) ==
  IF e.given # NULL THEN GivenVsWhere(e.given)
  ELSE IF e.inPath THEN vsWhereInPath
  ELSE FixedVsWhere

\* The lookups of getVsToolsPath: io.which only when VSWHERE_PATH is not set,
\* then fs.existsSync of the resolved path.
VsProbes(e) ==
  (IF e.given # NULL THEN <<>> ELSE <<Probe("which", <<"vswhere">>)>>)
    \o <<Probe("existsSync", VswhereToolExe(e))>>

\* vsRequirement(pkg)
VsRequirement(pkg) ==
  [version    |-> "16",
   components |-> <<"Microsoft.VisualStudio.Component.VC.Tools.x86.x64",
                    "Microsoft.VisualStudio.Component.Windows10SDK.17763">>]

\* -products * -format json -utf8 -latest -version "${requirement.version}"
VsWhereExec(requirement) ==
  <<"-products *", "-format json -utf8", "-latest", "-version",
    requirement.version>>

\* Array.prototype.reduce without an initial value, with the callback
\* (previous, current) => `${previous} --add "${current}"`: the first
\* element is the initial accumulator.
RECURSIVE ReduceAdd(_, _)
ReduceAdd(previous, rest) ==
  IF rest = <<>> THEN previous
  ELSE ReduceAdd(previous \o <<"--add", Head(rest)>>, Tail(rest))

ReduceComponents(components) ==
  ReduceAdd(<<Head(components)>>, Tail(components))

\* modify --installPath "${vs.installationPath}" <components> --quiet
VsInstallerExec(vs, requirement) ==
  <<"modify", "--installPath", vs.installationPath>>
    \o ReduceComponents(requirement.components) \o <<"--quiet">>

\* The records the query may report.
vsInstallationPath == <<"C:\\VS\\2019">>
setupEngine == <<"C:\\VS\\Installer\\setup.exe">>

VsRecords ==
  { [installationPath |-> vsInstallationPath,
     properties |-> [setupEngineFilePath |-> setupEngine]],
    [installationPath |-> <<>>,
     properties |-> [setupEngineFilePath |-> setupEngine]],
    [properties |-> [setupEngineFilePath |-> setupEngine]],
    [installationPath |-> vsInstallationPath] }

\* What the query writes: text that is not JSON, or a list of records.
Payloads ==
  {[json |-> FALSE, list |-> <<>>], [json |-> TRUE, list |-> <<>>]}
    \cup {[json |-> TRUE, list |-> <<r>>] : r \in VsRecords}

\* !vs.installationPath, for a record vs
NoInstallationPath(vs) ==
  ~("installationPath" \in DOMAIN vs) \/ vs.installationPath = <<>>

UnableToFindMsg(requirement) ==
  <<"Unable to find any visual studio installation for version: ",
    requirement.version, ".">>

ComponentsFailedMsg(c) ==
  <<"Visual Studio installer failed to install required components with exit code: ",
    ToString(c), ".">>

\* getVsToolsPath(), and on its success the start of the query.
GetVsToolsPath ==
  /\ pc = "tools"
  /\ \E e \in VsEnvs :
       /\ vsenv' = e
       /\ probes' = probes \o VsProbes(e)
       /\ IF VswhereToolExe(e) \in e.present
            THEN /\ pc' = "vswhere"
                 /\ calls' = calls \o
                      <<[op   |-> "exec",
                         args |-> <<VswhereToolExe(e)>> \o
                             VsWhereExec(VsRequirement(
                               SwiftPackage(version, system))),
                         listeners |-> TRUE]>>
                 /\ UNCHANGED <<failed, failedMsg>>
            ELSE /\ pc' = "thrown"
                 /\ failed' = TRUE
                 /\ failedMsg' =
                      <<"Action requires the path to where vswhere.exe exists">>
                 /\ UNCHANGED calls
  /\ UNCHANGED <<inputs, written, machine, swiftPath, hit, fetch, code, drive,
                 path, errors, infos, payload, vsCode, supportCode>>

\* await exec(`"${vswhereExe}" ...`, [], options), JSON.parse(payload)[0],
\* the test of vs.installationPath and the start of the modify engine.
VswhereSettle ==
  /\ pc = "vswhere"
  /\ \/ /\ pc' = "thrown"
        /\ UNCHANGED <<payload, infos, failed, failedMsg, calls>>
     \/ \E pl \in Payloads :
          LET requirement == VsRequirement(SwiftPackage(version, system))
          IN /\ payload' = pl
             /\ IF ~pl.json
                  THEN /\ pc' = "SyntaxError"
                       /\ infos' = infos \o <<<<"got payload">>>>
                       /\ UNCHANGED <<failed, failedMsg, calls>>
                ELSE IF pl.list = <<>>
                  THEN /\ pc' = "TypeError"
                       /\ infos' = infos \o
                            <<<<"got payload">>, <<"array">>, <<"obj">>>>
                       /\ UNCHANGED <<failed, failedMsg, calls>>
                ELSE IF NoInstallationPath(pl.list[1])
                  THEN /\ pc' = "done"
                       /\ infos' = infos \o
                            <<<<"got payload">>, <<"array">>, <<"obj">>>>
                       /\ failed' = TRUE
                       /\ failedMsg' = UnableToFindMsg(requirement)
                       /\ UNCHANGED calls
                ELSE IF ~("properties" \in DOMAIN pl.list[1])
                  THEN /\ pc' = "TypeError"
                       /\ infos' = infos \o
                            <<<<"got payload">>, <<"array">>, <<"obj">>>>
                       /\ UNCHANGED <<failed, failedMsg, calls>>
                ELSE /\ pc' = "modify"
                     /\ infos' = infos \o
                          <<<<"got payload">>, <<"array">>, <<"obj">>>>
                     /\ calls' = calls \o
                          <<Call("exec",
                                 <<pl.list[1].properties.setupEngineFilePath>>
                                   \o VsInstallerExec(pl.list[1],
                                                      requirement))>>
                     /\ UNCHANGED <<failed, failedMsg>>
  /\ UNCHANGED <<inputs, child, machine, swiftPath, hit, fetch, code, drive, path,
                 errors, vsenv, vsCode, supportCode>>

\* The numeric parts of a version string.
VersionParts(v) ==
  CASE v = "5.4.1" -> <<5, 4, 1>>
    [] v = "5.4.2" -> <<5, 4, 2>>
    [] v = "5.5.0" -> <<5, 5, 0>>

\* semver.lt(a, b)
SemverLt(a, b) ==
  LET x == VersionParts(a)
      y == VersionParts(b)
  IN \/ x[1] < y[1]
     \/ x[1] = y[1] /\ x[2] < y[2]
     \/ x[1] = y[1] /\ x[2] = y[2] /\ x[3] < y[3]

\* semver.lt(version, "5.4.2")
NeedsSupportFilesLte(v) == SemverLt(v, "5.4.2") \/ v = "5.4.2"

NeedsSupportFiles(v) == SemverLt(v, "5.4.2")

copyCommands ==
  <<"copy /Y ucrt.modulemap", "copy /Y visualc.modulemap",
    "copy /Y visualc.apinotes", "copy /Y winsdk.modulemap">>

\* The command of setupSupportFiles: the native tools script, then the copies.
SupportFilesCmd(vsInstallPath) ==
  <<"cmd /c">>
    \o Join(vsInstallPath, <<"VC\\Auxiliary\\Build\\vcvars32.bat">>)
    \o copyCommands

\* await exec(`"${vs.properties.setupEngineFilePath}" ...`, []), the test of
\* its exit code, and setupSupportFiles up to its exec.
ModifySettleNoReturn ==
  /\ pc = "modify"
  /\ \/ /\ pc' = "thrown"
        /\ UNCHANGED <<vsCode, failed, failedMsg, calls>>
     \/ \E c \in ExitCodes :
          /\ vsCode' = c
          /\ IF c # 0
               THEN /\ failed' = TRUE
                    /\ failedMsg' = ComponentsFailedMsg(c)
               ELSE UNCHANGED <<failed, failedMsg>>
          /\ IF NeedsSupportFiles(SwiftPackage(version, system).version)
               THEN /\ pc' = "supportFiles"
                    /\ calls' = calls \o
                         <<Call("exec",
                                SupportFilesCmd(
                                  payload.list[1].installationPath))>>
               ELSE /\ pc' = "done"
                    /\ UNCHANGED calls
  /\ UNCHANGED <<inputs, child, machine, swiftPath, hit, fetch, code, drive, path,
                 errors, infos, vsenv, payload, supportCode>>

ModifySettle ==
  /\ pc = "modify"
  /\ \/ /\ pc' = "thrown"
        /\ UNCHANGED <<vsCode, failed, failedMsg, calls>>
     \/ \E c \in ExitCodes :
          /\ vsCode' = c
          /\ IF c # 0
               THEN /\ failed' = TRUE
                    /\ failedMsg' = ComponentsFailedMsg(c)
                    /\ pc' = "done"
                    /\ UNCHANGED calls
             ELSE IF NeedsSupportFiles(SwiftPackage(version, system).version)
               THEN /\ pc' = "supportFiles"
                    /\ calls' = calls \o
                         <<Call("exec",
                                SupportFilesCmd(
                                  payload.list[1].installationPath))>>
                    /\ UNCHANGED <<failed, failedMsg>>
             ELSE /\ pc' = "done"
                  /\ UNCHANGED <<failed, failedMsg, calls>>
  /\ UNCHANGED <<inputs, child, machine, swiftPath, hit, fetch, code, drive, path,
                 errors, infos, vsenv, payload, supportCode>>

\* await exec("cmd /c", [...]) in setupSupportFiles, and core.info of the code.
SupportFilesSettle ==
  /\ pc = "supportFiles"
  /\ \/ /\ pc' = "thrown"
        /\ UNCHANGED <<supportCode, infos>>
     \/ \E c \in ExitCodes :
          /\ supportCode' = c
          /\ infos' = infos \o
               <<<<"Ran command for swift and exited with code: ",
                   ToString(c)>>>>
          /\ pc' = "done"
  /\ UNCHANGED <<inputs, child, machine, swiftPath, hit, fetch, code, drive, path,
                 failed, failedMsg, errors, vsenv, payload, vsCode, calls>>

\* ---------------------------------------------------------------- run

\* run(): the platform switch of the entry point.
RunBeginNoDefault ==
  \E p \in Platforms, v \in Versions, p0 \in InitialPaths :
    /\ Fresh("run", p, v, system, p0)
    /\ errors' = <<>>
    /\ pc' = "linux"
    /\ failed' = FALSE
    /\ failedMsg' = <<>>
    /\ calls' = <<Call("linux.install", <<<<v>>>>)>>

RunBegin ==
  \E p \in Platforms, v \in Versions, p0 \in InitialPaths :
    /\ Fresh("run", p, v, system, p0)
    /\ errors' = <<>>
    /\ IF p = "linux"
         THEN /\ pc' = "linux"
              /\ failed' = FALSE
              /\ failedMsg' = <<>>
              /\ calls' = <<Call("linux.install", <<<<v>>>>)>>
         ELSE /\ pc' = "done"
              /\ failed' = TRUE
              /\ failedMsg' = UnsupportedMsg(p)
              /\ calls' = <<>>

\* yield linux.install(version)
LinuxInstallSettle ==
  /\ pc = "linux"
  /\ \E ok \in BOOLEAN : pc' = IF ok THEN "done" ELSE "thrown"
  /\ UNCHANGED <<inputs, child, machine, swiftPath, hit, fetch, code, drive, path,
                 outcome, tools, calls>>

\* ------------------------------------------------------ specification

Next ==
  \/ InstallBegin
  \/ CacheLookup
  \/ SetupKeysSettle
  \/ ExeTransferSettle
  \/ SigTransferSettle
  \/ AwaitDownloads
  \/ VerifySettle
  \/ CacheFileSettle
  \/ InstallerOutput
  \/ InstallerSettle
  \/ GetVsToolsPath
  \/ VswhereSettle
  \/ ModifySettle
  \/ SupportFilesSettle
  \/ RunBegin
  \/ LinuxInstallSettle

Spec == Init /\ [][Next]_vars

\* ------------------------------------------------------------- claims

\* The call starts the installer: `"<path>" -q` with no further argument.
IsInstallerExec(c) ==
  /\ c.op = "exec"
  /\ Len(c.args) = 1
  /\ c.args[1][Len(c.args[1])] = " -q"

InstallerRuns == {i \in DOMAIN calls : IsInstallerExec(calls[i])}

\* The path between the quotes of an installer command.
PathOf(cmd) == SubSeq(cmd, 2, Len(cmd) - 2)

CallsOf(op) == {i \in DOMAIN calls : calls[i].op = op}

\* The artifact install inserts for this invocation, as the store files it.
CachedInstaller ==
  Join(CacheDir(CacheKey(system), version),
       SwiftPackage(version, system).name)

\* C1: on the cache-miss path the installer is started only after
\* verify(signature, exe) succeeded for the downloaded installer, which is the
\* file then cached and executed; when verify failed or was never called the
\* installer is not started.
C1_InstallerOnlyAfterVerify ==
  (entry = "install" /\ hit = "miss") =>
    \A i \in InstallerRuns :
      /\ verified = "ok"
      /\ calls[i].args[1] = InstallerCmd(CachedInstaller)
      /\ \E j \in 1..(i - 1), k \in 1..(i - 1) :
           /\ j < k
           /\ calls[j].op = "verify"
           /\ calls[j].args = <<signatureTmp, exeTmp>>
           /\ calls[k].op = "cacheFile"
           /\ calls[k].args[1] = exeTmp

C1_Witness ==
  /\ entry = "install"
  /\ hit = "miss"
  /\ verified = "ok"
  /\ InstallerRuns # {}

\* C2: verify is started only when both transfers have completed
\* successfully, and once a transfer has failed neither verify nor the
\* installer is invoked in that run, whatever the order in which the two
\* transfers settle.
C2_DownloadsAwaitedAsUnit ==
  /\ CallsOf("verify") # {} => (dlExe = "ok" /\ dlSig = "ok")
  /\ "failed" \in {dlExe, dlSig} =>
       (CallsOf("verify") = {} /\ InstallerRuns = {} /\ verified = "none")

C2_Witness ==
  /\ pc = "thrown"
  /\ dlSig = "failed"
  /\ dlExe = "pending"

\* C3: the tool cache changes only by the insertion of this invocation's
\* artifact under (swift-<os name>, version), after both transfers and the
\* verification succeeded; so every cached artifact was verified when it was
\* inserted, and what a cache hit returns is such an artifact.
C3_CacheOnlyVerified ==
  /\ [][cache' # cache =>
          /\ dlExe = "ok" /\ dlSig = "ok" /\ verified = "ok"
          /\ \E e \in cache' :
               /\ cache' = cache \cup {e}
               /\ e.key = CacheKey(system)
               /\ e.version = version
               /\ e.source = exeTmp]_vars
  /\ [](\A e \in cache : e.verified)
  /\ [](hit = "hit" =>
          \E e \in cache :
            e.verified /\ swiftPath = CacheDir(e.key, e.version))

C3_Witness ==
  /\ hit = "hit"
  /\ runs > 1
  /\ \E e \in cache : e.key = CacheKey(system) /\ e.version = version

\* install has classified the installer's outcome in this invocation.
Located == entry = "install" /\ drive # NULL

\* fs.existsSync(swiftInstallPath), as the locate step saw it.
BinPresent == SwiftInstallPath(drive) \in fs

\* The locate step ended the invocation as a fatal installer failure.
InstallerFatal ==
  pc = "done" /\ failed /\ failedMsg = InstallerFailedMsg(code)

\* The addPath calls of the invocation, in order.
IsAddPath(c) == c.op = "addPath"
AddPathCalls == SelectSeq(calls, IsAddPath)

\* C4: the outcome of the installer is decided by the toolchain bin directory:
\* present is success whatever the exit code, absent is a fatal failure
\* whatever the exit code.
C4_DirectoryDecides ==
  Located =>
    /\ BinPresent => (~InstallerFatal /\ AddPathCalls # <<>>)
    /\ ~BinPresent => (InstallerFatal /\ AddPathCalls = <<>>)

\* C5: on a cache hit there is no key setup, download, verification or cache
\* insertion; the installer is started with the cached path, and PATH is
\* extended when the installer succeeds.
C5_HitSkipsFetch ==
  (entry = "install" /\ hit = "hit") =>
    /\ CallsOf("setupKeys") = {} /\ CallsOf("downloadTool") = {}
    /\ CallsOf("verify") = {} /\ CallsOf("cacheFile") = {}
    /\ keys = "none" /\ dlExe = "none" /\ dlSig = "none"
    /\ verified = "none"
    /\ Cardinality(InstallerRuns) = 1
    /\ \A i \in InstallerRuns : PathOf(calls[i].args[1]) = swiftPath
    /\ (Located /\ code = 0 /\ BinPresent) =>
         /\ AddPathCalls # <<>>
         /\ \E i \in DOMAIN path : path[i] = SwiftInstallPath(drive)

C5_Witness ==
  /\ entry = "install"
  /\ hit = "hit"
  /\ Located /\ code = 0 /\ BinPresent
  /\ AddPathCalls # <<>>

\* The string has no symbol other than whitespace.
OnlyWhiteSpace(str) == \A k \in DOMAIN str : str[k] \in WhiteSpace

\* C6: a null, empty or whitespace-only result of the lookup is a miss: a hit
\* is always a path with a non-whitespace symbol, the installer is never
\* started with a blank path, and after a miss it is started only once the
\* transfers and the verification have been gone through.
C6_BlankIsMiss ==
  entry = "install" =>
    /\ hit = "hit" => (swiftPath # NULL /\ ~OnlyWhiteSpace(swiftPath))
    /\ (hit = "miss" /\ pc \in {"setupKeys", "download", "verify"}) =>
         (swiftPath = NULL \/ OnlyWhiteSpace(swiftPath))
    /\ \A i \in InstallerRuns :
         /\ ~OnlyWhiteSpace(PathOf(calls[i].args[1]))
         /\ hit = "miss" =>
              (CallsOf("downloadTool") # {} /\ CallsOf("verify") # {})

C6_Witness ==
  /\ entry = "install"
  /\ hit = "miss"
  /\ swiftPath = <<" ", "\t">>
  /\ pc = "verify"

\* C7: when install classifies the installer's outcome as fatal, the job is
\* marked failed with the exit code, PATH is as it was, and nothing follows:
\* no build-tools lookup, query, component modify or support-file patch.
C7_FatalStopsRun ==
  (Located /\ (code # 0 \/ ~BinPresent)) =>
    /\ failed
    /\ failedMsg = InstallerFailedMsg(code)
    /\ path = path0
    /\ AddPathCalls = <<>>
    /\ pc = "done"
    /\ vsenv = Unset /\ payload = Unset /\ vsCode = -1
    /\ IsInstallerExec(calls[Len(calls)])

C7_Witness ==
  /\ Located
  /\ code # 0
  /\ BinPresent
  /\ failed
  /\ pc = "done"

\* The build-tools query has answered in this invocation.
Queried == vsenv # Unset /\ payload # Unset

\* The call starts the modify engine.
IsModifyExec(c) ==
  /\ c.op = "exec"
  /\ Len(c.args) > 1
  /\ c.args[2] = "modify"

\* C8: an empty list, or a first record without installationPath, ends
\* setupRequiredTools as a fatal failure whose message names the required
\* version; no field of a missing record is read (no TypeError), and the
\* modify engine is not started.
C8_NoInstallationIsFatal ==
  (Queried /\ payload.json
     /\ (payload.list = <<>> \/ NoInstallationPath(payload.list[1]))) =>
    /\ pc = "done"
    /\ failed
    /\ failedMsg = UnableToFindMsg(VsRequirement(SwiftPackage(version, system)))
    /\ \A i \in DOMAIN calls : ~IsModifyExec(calls[i])

\* C9: once install has taken the success branch of the locate step, the
\* addPath calls of the invocation are the toolchain bin directory and then
\* the two auxiliary directories in their declared order, each once, and
\* PATH is these directories put in front of the PATH the job started with.
C9_PathAdditive ==
  (Located /\ code = 0 /\ BinPresent) =>
    LET bin == drive \o <<"Library", "Developer", "Toolchains",
                          "unknown-Asserts-development.xctoolchain",
                          "usr\\bin">>
        dev == drive \o <<"Library", "Swift-development\\bin">>
        icu == drive \o <<"Library", "icu-67\\usr\\bin">>
    IN /\ Len(AddPathCalls) = 3
       /\ AddPathCalls[1].args = <<bin>>
       /\ AddPathCalls[2].args = <<dev>>
       /\ AddPathCalls[3].args = <<icu>>
       /\ path = <<icu, dev, bin>> \o path0
       /\ \A k \in DOMAIN path0 : \E j \in DOMAIN path : path[j] = path0[k]

C9_Witness ==
  /\ Located /\ code = 0 /\ BinPresent
  /\ path0 = <<"sys">>
  /\ Len(AddPathCalls) = 3

\* C10: on a platform run() does not support the invocation ends at once,
\* marked failed with a message that names the platform, and nothing else has
\* happened: no cache lookup, transfer, verification, installer or PATH
\* change.  install's own guard likewise does nothing on a foreign platform.
C10_UnsupportedPlatform ==
  /\ []((entry = "run" /\ platform # "linux") =>
          /\ pc = "done"
          /\ failed
          /\ failedMsg = UnsupportedMsg(platform)
          /\ calls = <<>>
          /\ path = path0
          /\ hit = "none" /\ keys = "none" /\ dlExe = "none"
          /\ dlSig = "none" /\ verified = "none" /\ code = -1)
  /\ []((entry = "install" /\ platform # "win32") =>
          /\ pc = "done"
          /\ calls = <<>>
          /\ path = path0
          /\ hit = "none" /\ keys = "none" /\ dlExe = "none"
          /\ dlSig = "none" /\ verified = "none" /\ code = -1)
  /\ [][((entry' = "run" /\ platform' # "linux")
           \/ (entry' = "install" /\ platform' # "win32"))
          => (cache' = cache /\ fs' = fs)]_vars

C10_Witness ==
  /\ entry = "run"
  /\ platform = "darwin"
  /\ pc = "done"
  /\ failed

\* The call runs the support-file patch: the native tools script followed by
\* the four copy commands.
IsSupportExec(c) ==
  /\ c.op = "exec"
  /\ Len(c.args) > 4
  /\ SubSeq(c.args, Len(c.args) - 3, Len(c.args)) =
       <<"copy /Y ucrt.modulemap", "copy /Y visualc.modulemap",
         "copy /Y visualc.apinotes", "copy /Y winsdk.modulemap">>

SupportRuns == {i \in DOMAIN calls : IsSupportExec(calls[i])}
ModifyRuns == {i \in DOMAIN calls : IsModifyExec(calls[i])}

\* C11: the support-file patch is executed exactly when the version is below
\* 5.4.2 (of the versions explored: 5.4.1, not 5.4.2 and not 5.5.0) and every
\* earlier stage succeeded: the installer, the tool lookup, the query and the
\* component modify.
C11_PatchOnlyBelowThreshold ==
  /\ SupportRuns # {} =>
       /\ version = "5.4.1"
       /\ Located /\ code = 0 /\ BinPresent
       /\ Queried /\ ~NoInstallationPath(payload.list[1])
       /\ vsCode = 0
       /\ ~failed
       /\ \A i \in SupportRuns : \E j \in ModifyRuns : j < i
  /\ (version = "5.4.1" /\ vsCode = 0) => SupportRuns # {}
  /\ version \in {"5.4.2", "5.5.0"} => SupportRuns = {}

C11_Witness ==
  /\ version = "5.4.1"
  /\ vsCode = 0
  /\ Cardinality(SupportRuns) = 1
  /\ pc = "supportFiles"

\* The chunks of `written` that went to the stream.
IsStdout(stream) == stream = "stdout"
IsStderr(stream) == stream = "stderr"

\* C12: while the installer runs, every chunk it has written to standard
\* output has been given to core.info and every chunk it has written to
\* standard error to core.error: the listeners install builds are attached to
\* the exec call of the installer.
C12_InstallerOutputForwarded ==
  (entry = "install" /\ pc = "installer" /\ written # <<>>) =>
    /\ \A i \in InstallerRuns : calls[i].listeners
    /\ Len(infos) = Len(SelectSeq(written, IsStdout))
    /\ Len(errors) = Len(SelectSeq(written, IsStderr))

\* C13: on every cache-miss run setupKeys is called, and it has succeeded
\* before verify is called; when setupKeys fails the run ends there: no
\* transfer, no verify, no cache insertion and no installer.
C13_KeysBeforeVerify ==
  entry = "install" =>
    /\ hit = "miss" => CallsOf("setupKeys") # {}
    /\ \A i \in CallsOf("verify") :
         keys = "ok" /\ \E j \in CallsOf("setupKeys") : j < i
    /\ keys = "failed" =>
         /\ pc = "thrown"
         /\ CallsOf("downloadTool") = {} /\ CallsOf("verify") = {}
         /\ CallsOf("cacheFile") = {} /\ InstallerRuns = {}
         /\ dlExe = "none" /\ dlSig = "none" /\ verified = "none"
         /\ Cached(CacheKey(system), version) = {}

C13_Witness ==
  /\ entry = "install"
  /\ hit = "miss"
  /\ keys = "failed"
  /\ pc = "thrown"

\* C14: the modify command names the installation path the query reported
\* after --installPath, ends with the quiet flag, and for every required
\* component c holds --add immediately followed by c.
C14_EveryComponentAdded ==
  \A i \in ModifyRuns :
    LET a == calls[i].args
        components == VsRequirement(SwiftPackage(version, system)).components
    IN /\ a[3] = "--installPath"
       /\ a[4] = payload.list[1].installationPath
       /\ a[Len(a)] = "--quiet"
       /\ \A k \in DOMAIN components :
            \E j \in 5..(Len(a) - 2) :
              a[j] = "--add" /\ a[j + 1] = components[k]

\* C15: when the modify engine exits with a code other than 0 the run is
\* marked failed with a message that holds that code, it ends there, and the
\* support-file patch is never run.
C15_ModifyFailureIsFatal ==
  vsCode \notin {-1, 0} =>
    /\ failed
    /\ failedMsg =
         <<"Visual Studio installer failed to install required components with exit code: ",
           ToString(vsCode), ".">>
    /\ pc = "done"
    /\ SupportRuns = {}
    /\ supportCode = -1

C15_Witness ==
  /\ version = "5.4.1"
  /\ ModifyRuns # {}
  /\ vsCode = 1
  /\ failed
  /\ pc = "done"

\* The call starts the build-tools query.
IsQueryExec(c) ==
  /\ c.op = "exec"
  /\ Len(c.args) > 1
  /\ c.args[2] = "-products *"

QueryRuns == {i \in DOMAIN calls : IsQueryExec(calls[i])}

\* The location the preference order designates in the environment of the
\* invocation: the override directory, else the search path, else the fixed
\* directory.
PreferredLocation ==
  IF vsenv.given # NULL THEN Join(vsenv.given, <<"vswhere.exe">>)
  ELSE IF vsenv.inPath THEN <<"P:\\bin", "vswhere.exe">>
  ELSE <<"C:\\Program Files (x86)",
         "Microsoft Visual Studio\\Installer\\vswhere.exe">>

\* C16: the query runs the tool of the preferred location; and when the query
\* tool or the modify engine beside it is missing there, the run is marked
\* failed and throws before any query or modify command.
C16_ToolsResolvedOrFatal ==
  vsenv # Unset =>
    /\ \A i \in QueryRuns : calls[i].args[1] = PreferredLocation
    /\ (PreferredLocation \notin vsenv.present \/ ~vsenv.engine) =>
         /\ failed
         /\ pc = "thrown"
         /\ QueryRuns = {}
         /\ ModifyRuns = {}

\* C17: when the support-file patch exits with a code other than 0, the code
\* is reported and the run is marked failed.
C17_PatchFailureIsFatal ==
  supportCode \notin {-1, 0} =>
    /\ \E i \in DOMAIN infos :
         infos[i][Len(infos[i])] = ToString(supportCode)
    /\ failed

\* The call fetches the detached signature.
IsSigDownload(c) ==
  /\ c.op = "downloadTool"
  /\ c.args[1][Len(c.args[1])] = ".sig"

\* The call fetches the installer.
IsExeDownload(c) ==
  /\ c.op = "downloadTool"
  /\ c.args[1][Len(c.args[1])] # ".sig"

\* The calls of the invocation, by external operation.
OperationRuns ==
  { CallsOf("find"), CallsOf("setupKeys"),
    {i \in DOMAIN calls : IsExeDownload(calls[i])},
    {i \in DOMAIN calls : IsSigDownload(calls[i])},
    CallsOf("verify"), CallsOf("cacheFile"),
    InstallerRuns, QueryRuns, ModifyRuns, SupportRuns }

\* An external operation of the invocation has failed: a rejected promise or
\* an exit code other than 0.
OperationFailed ==
  \/ keys = "failed"
  \/ dlExe = "failed"
  \/ dlSig = "failed"
  \/ verified = "failed"
  \/ code \notin {-1, 0}
  \/ vsCode \notin {-1, 0}
  \/ supportCode \notin {-1, 0}
  \/ pc \in {"thrown", "TypeError", "SyntaxError"}

\* C18: within one invocation every external operation is called at most
\* once, and once an operation has failed no further call is made until the
\* next invocation.
C18_NoRetry ==
  /\ [](entry = "install" =>
          \A ops \in OperationRuns : Cardinality(ops) <= 1)
  /\ [][(entry = "install" /\ OperationFailed) =>
          (calls' = calls \/ runs' # runs)]_vars

C18_Witness ==
  /\ entry = "install"
  /\ version = "5.4.1"
  /\ vsCode = 1
  /\ pc = "done"
  /\ \A ops \in OperationRuns \ {SupportRuns} : Cardinality(ops) = 1
  /\ SupportRuns = {}

\* C19: the installer a run starts is the file the store holds for its key
\* and version, join(cachedDirectory, name), on the run that inserted it and
\* on a later run that finds it.
C19_HitRunsSameInstaller ==
  entry = "install" =>
    \A i \in InstallerRuns :
      /\ hit = "miss" => PathOf(calls[i].args[1]) = CachedInstaller
      /\ hit = "hit" =>
           /\ Cached(CacheKey(system), version) # {}
           /\ PathOf(calls[i].args[1]) = CachedInstaller

\* The query tool in the override directory, on the search path and in the
\* fixed directory.
OverrideTool == Join(vsenv.given, <<"vswhere.exe">>)
SearchPathTool == <<"P:\\bin", "vswhere.exe">>
FixedTool ==
  <<"C:\\Program Files (x86)",
    "Microsoft Visual Studio\\Installer\\vswhere.exe">>

\* C20: with VSWHERE_PATH set, the search path is not searched and neither
\* the tool found there nor the fixed directory is looked at or run; and when
\* the tool is absent from the override directory the run is marked failed
\* and throws without a query, wherever else the tool exists.
C20_OverrideIsExclusive ==
  (vsenv # Unset /\ vsenv.given # NULL) =>
    /\ \A i \in DOMAIN probes :
         /\ probes[i].op # "which"
         /\ probes[i].file \notin {SearchPathTool, FixedTool}
    /\ \E i \in DOMAIN probes :
         probes[i] = [op |-> "existsSync", file |-> OverrideTool]
    /\ \A i \in QueryRuns : calls[i].args[1] = OverrideTool
    /\ OverrideTool \notin vsenv.present =>
         /\ failed
         /\ failedMsg =
              <<"Action requires the path to where vswhere.exe exists">>
         /\ pc = "thrown"
         /\ QueryRuns = {}
         /\ ModifyRuns = {}

C20_Witness ==
  /\ vsenv # Unset
  /\ vsenv.given # NULL
  /\ OverrideTool \notin vsenv.present
  /\ SearchPathTool \in vsenv.present
  /\ FixedTool \in vsenv.present
  /\ failed
  /\ pc = "thrown"

====
